---- MODULE Spec2Model ----
(***************************************************************************)
(* A model of the metrics channel (src/metrics/src/channel.rs) and of the  *)
(* AtomicPrimitive implementation over AtomicI8                            *)
(* (src/atomics/src/atomic_primitive/atomic_i8.rs).                        *)
(*                                                                         *)
(* Representation of u64.  TLC's integers are 32 bits wide, so a u64 is    *)
(* held as the integer with the same 64-bit two's-complement pattern: a    *)
(* value v < 2^63 is held as v, a value v >= 2^63 is held as v - 2^64      *)
(* (u64::MAX is -1).  On bit patterns wrapping_add and wrapping_sub of u64 *)
(* are the additions and subtractions of i64, so inside the range the      *)
(* model draws from they are + and - on the held integers; the unsigned    *)
(* order is U64Lt.  The model only ever holds values within 2^31 of 0 or   *)
(* of 2^64; TLC stops with an overflow error if a value leaves that range. *)
(***************************************************************************)
EXTENDS Integers, Sequences, FiniteSets, Bags, TLC

\* ------------------------------------------------------------------------
\* Unsigned 64-bit arithmetic on the held integers
\* ------------------------------------------------------------------------

U64Max == -1

\* a < b as u64
U64Lt(a, b) == IF (a < 0) = (b < 0) THEN a < b ELSE b < 0

\* a > b as u64
U64Gt(a, b) == U64Lt(b, a)

U64Ge(a, b) == ~U64Lt(a, b)

\* a variant of wrapping_sub: the subtraction saturates at 0
saturating_sub(a, b) == IF U64Lt(a, b) THEN 0 ELSE a - b

wrapping_sub(a, b) == a - b

wrapping_add(a, b) == a + b

\* ------------------------------------------------------------------------
\* Natural numbers of any size, as little-endian sequences of bits without
\* high zero bits (0 is the empty sequence).  They carry the 53-bit
\* mantissas of f64 and the 64-bit patterns of u64.
\* ------------------------------------------------------------------------

RECURSIVE NatToBits(_)
NatToBits(n) == IF n = 0 THEN <<>> ELSE <<n % 2>> \o NatToBits(n \div 2)

RECURSIVE BitsToNat(_)
BitsToNat(b) == IF b = <<>> THEN 0 ELSE Head(b) + 2 * BitsToNat(Tail(b))

BitAt(b, i) == IF i >= 1 /\ i <= Len(b) THEN b[i] ELSE 0

\* the highest i <= n with b[i] = 1, or 0
RECURSIVE TopOne(_, _)
TopOne(b, n) == IF n = 0 THEN 0 ELSE IF b[n] = 1 THEN n ELSE TopOne(b, n - 1)

\* b without its high zero bits
Trim(b) == SubSeq(b, 1, TopOne(b, Len(b)))

Zeros(k) == [i \in 1..k |-> 0]

Pow2Bits(k) == Zeros(k) \o <<1>>

ShiftLeft(b, k) == IF b = <<>> THEN <<>> ELSE Zeros(k) \o b

ShiftRight(b, k) == IF k >= Len(b) THEN <<>> ELSE SubSeq(b, k + 1, Len(b))

\* bits lo..hi of a + b + c: the sum bits s and the carry out c.  The range
\* is halved at each level, so that the depth of the recursion is the
\* logarithm of the width.
RECURSIVE AddRange(_, _, _, _, _)
AddRange(a, b, c, lo, hi) ==
    IF lo = hi
    THEN LET t == BitAt(a, lo) + BitAt(b, lo) + c
         IN  [s |-> <<t % 2>>, c |-> t \div 2]
    ELSE LET mid == (lo + hi) \div 2
             l   == AddRange(a, b, c, lo, mid)
             h   == AddRange(a, b, l.c, mid + 1, hi)
         IN  [s |-> l.s \o h.s, c |-> h.c]

AddBits(a, b) ==
    LET w == IF Len(a) > Len(b) THEN Len(a) ELSE Len(b)
    IN  IF w = 0 THEN <<>>
        ELSE LET r == AddRange(a, b, 0, 1, w) IN Trim(r.s \o <<r.c>>)

\* bits lo..hi of a - b - c: the difference bits s and the borrow out c
RECURSIVE SubRange(_, _, _, _, _)
SubRange(a, b, c, lo, hi) ==
    IF lo = hi
    THEN LET t == BitAt(a, lo) - BitAt(b, lo) - c
         IN  [s |-> <<t % 2>>, c |-> IF t < 0 THEN 1 ELSE 0]
    ELSE LET mid == (lo + hi) \div 2
             l   == SubRange(a, b, c, lo, mid)
             h   == SubRange(a, b, l.c, mid + 1, hi)
         IN  [s |-> l.s \o h.s, c |-> h.c]

\* a - b for a >= b
SubBits(a, b) ==
    IF Len(a) = 0 THEN <<>> ELSE Trim(SubRange(a, b, 0, 1, Len(a)).s)

\* a >= b, for a and b of the same length: the highest differing bit decides
RECURSIVE GeFrom(_, _, _)
GeFrom(a, b, i) ==
    IF i = 0 THEN TRUE
    ELSE IF a[i] # b[i] THEN a[i] > b[i]
    ELSE GeFrom(a, b, i - 1)

\* a >= b
GeBits(a, b) ==
    LET ta == Trim(a)
        tb == Trim(b)
    IN  IF Len(ta) # Len(tb) THEN Len(ta) > Len(tb) ELSE GeFrom(ta, tb, Len(ta))

RECURSIVE MulBits(_, _)
MulBits(a, b) ==
    IF Len(a) = 0 THEN <<>>
    ELSE IF Len(a) = 1 THEN (IF a[1] = 1 THEN Trim(b) ELSE <<>>)
    ELSE LET mid == Len(a) \div 2
         IN  AddBits(MulBits(SubSeq(a, 1, mid), b),
                     ShiftLeft(MulBits(SubSeq(a, mid + 1, Len(a)), b), mid))

\* long division of bits lo..hi of n, high bits first, entered with the
\* remainder r0 of the bits above hi: quotient bits q and remainder r.  The
\* test on h.q is never true; it makes the high half be evaluated before the
\* low half is entered.
RECURSIVE DivRange(_, _, _, _, _)
DivRange(n, d, r0, lo, hi) ==
    IF lo = hi
    THEN LET r2 == Trim(<<n[lo]>> \o r0)
         IN  IF GeBits(r2, d)
             THEN [q |-> <<1>>, r |-> SubBits(r2, d)]
             ELSE [q |-> <<0>>, r |-> r2]
    ELSE LET mid == (lo + hi) \div 2
             h   == DivRange(n, d, r0, mid + 1, hi)
         IN  IF Len(h.q) = 0 THEN h
             ELSE LET l == DivRange(n, d, h.r, lo, mid)
                  IN  [q |-> l.q \o h.q, r |-> l.r]

\* quotient q and remainder r of n by d # 0
DivBits(n, d) ==
    IF Len(n) = 0 THEN [q |-> <<>>, r |-> <<>>]
    ELSE LET res == DivRange(n, d, <<>>, 1, Len(n))
         IN  [q |-> Trim(res.q), r |-> res.r]

AnyOne(b, k) == \E i \in 1..k : BitAt(b, i) = 1

\* ------------------------------------------------------------------------
\* IEEE 754 binary64, for the non-negative values the rate computation
\* meets.  A finite value is man * 2^exp with man of at most 53 bits;
\* every operation rounds to nearest, ties to even.  The exponent range is
\* not modelled: the values met lie between 2^-35 and 2^95.
\* ------------------------------------------------------------------------

MantissaBits == 53

F64Inf == [kind |-> "inf", man |-> <<>>, exp |-> 0]

F64NaN == [kind |-> "nan", man |-> <<>>, exp |-> 0]

F64Fin(man, exp) == [kind |-> "fin", man |-> man, exp |-> exp]

\* round man * 2^exp (plus a nonzero fraction below the last bit of man when
\* sticky) to a binary64 value
RoundF64(man, exp, sticky) ==
    IF Len(man) <= MantissaBits THEN F64Fin(man, exp)
    ELSE LET k     == Len(man) - MantissaBits
             kept  == ShiftRight(man, k)
             guard == man[k]
             rest  == sticky \/ AnyOne(man, k - 1)
             up    == guard = 1 /\ (rest \/ kept[1] = 1)
             res   == IF up THEN AddBits(kept, <<1>>) ELSE kept
         IN  IF Len(res) > MantissaBits
             THEN F64Fin(ShiftRight(res, 1), exp + k + 1)
             ELSE F64Fin(res, exp + k)

\* `x as f64` for a u64 x
U64ToF64(x) ==
    IF x >= 0 THEN RoundF64(NatToBits(x), 0, FALSE)
    ELSE RoundF64(SubBits(Pow2Bits(64), NatToBits(-x)), 0, FALSE)

\* a / b for a finite and positive
F64Div(a, b) ==
    IF b.kind = "nan" THEN F64NaN
    ELSE IF b.kind = "inf" THEN F64Fin(<<>>, 0)
    ELSE IF b.man = <<>> THEN F64Inf
    ELSE LET s  == MantissaBits + 2 + Len(b.man)
             qr == DivBits(ShiftLeft(a.man, s), b.man)
         IN  RoundF64(qr.q, a.exp - b.exp - s, qr.r # <<>>)

\* a * b
F64Mul(a, b) ==
    IF a.kind = "nan" \/ b.kind = "nan" THEN F64NaN
    ELSE IF a.kind = "inf" \/ b.kind = "inf"
         THEN (IF (a.kind = "fin" /\ a.man = <<>>) \/ (b.kind = "fin" /\ b.man = <<>>)
               THEN F64NaN ELSE F64Inf)
    ELSE RoundF64(MulBits(a.man, b.man), a.exp + b.exp, FALSE)

\* the integer part of a finite value, as bits
F64Trunc(a) ==
    IF a.exp >= 0 THEN ShiftLeft(a.man, a.exp) ELSE ShiftRight(a.man, -a.exp)

\* the literal 1_000_000_000.0
NanosPerSecond == 1000000000

F64InRangeOfU64(a) == a.kind = "fin" /\ Len(F64Trunc(a)) <= 64

\* `a as u64`.  A NaN, an infinity and a value of 2^64 or more are outside
\* the range of u64: the cast of such a value is undefined behaviour in the
\* Rust of this code's time and saturates (NaN to 0) in later compilers, so
\* it yields any of CastOutOfRange.
CastOutOfRange == {0, U64Max}

F64ToU64(a) ==
    IF ~F64InRangeOfU64(a) THEN CastOutOfRange
    ELSE LET bits == F64Trunc(a)
         IN  IF Len(bits) = 64
             THEN {-BitsToNat(SubBits(Pow2Bits(64), bits))}
             ELSE {BitsToNat(bits)}

\* (delta_value as f64 * (1_000_000_000.0 / delta_time as f64)) as u64:
\* the set of values the expression can yield
RateF64(delta_value, delta_time) ==
    F64Mul(U64ToF64(delta_value),
           F64Div(U64ToF64(NanosPerSecond), U64ToF64(delta_time)))

Rate(delta_value, delta_time) == F64ToU64(RateF64(delta_value, delta_time))

\* ------------------------------------------------------------------------
\* Bounds and input sets
\* ------------------------------------------------------------------------

\* most measurements accepted between two zero() calls
MaxWindow == 2

\* values, counts and times (in nanoseconds) the measurements carry
Values == {0, 29}

Counts == {1, 2}

Times == {0, 29}

\* the values and times of the Distribution measurements, the times of the
\* Increment and of the Gauge measurements and the stop times of the
\* TimeInterval measurements
DistributionValues == {29}

DistributionTimes == {29}

IncrementTimes == {29}

GaugeTimes == {0, 29, 58}

Stops == {0, 87}

\* the percentile of the one Percentile output
PercentileP == 50

\* memo of Rate over the differences the inputs give rise to
MaxOf(S) == CHOOSE i \in S : \A j \in S : j <= i

RateTable ==
    [d \in -(MaxOf(Values) + MaxWindow * MaxOf(Counts))..MaxOf(Values),
     t \in {a - b : a, b \in Times} |-> Rate(d, t)]

RateOf(delta_value, delta_time) ==
    IF <<delta_value, delta_time>> \in DOMAIN RateTable
    THEN RateTable[delta_value, delta_time]
    ELSE Rate(delta_value, delta_time)

\* ------------------------------------------------------------------------
\* Data types
\* ------------------------------------------------------------------------

Sources == {"Counter", "Distribution", "Gauge", "TimeInterval"}

Measurement(kind, value, count, time, start, stop) ==
    [kind |-> kind, value |-> value, count |-> count, time |-> time,
     start |-> start, stop |-> stop]

Measurements ==
    {Measurement("Counter", v, 0, t, 0, 0) : v \in Values, t \in Times}
    \cup {Measurement("Distribution", vc[1], vc[2], t, 0, 0) :
              vc \in DistributionValues \X Counts, t \in DistributionTimes}
    \cup {Measurement("Gauge", v, 0, t, 0, 0) : v \in Values, t \in GaugeTimes}
    \cup {Measurement("Increment", 0, c, t, 0, 0) : c \in Counts, t \in IncrementTimes}
    \cup {Measurement("TimeInterval", 0, 0, 0, a, b) : a \in Times, b \in Stops}

\* the Source a Measurement variant is legal on
LegalSource(m) ==
    CASE m.kind = "Counter" -> "Counter"
      [] m.kind = "Increment" -> "Counter"
      [] m.kind = "Distribution" -> "Distribution"
      [] m.kind = "Gauge" -> "Gauge"
      [] m.kind = "TimeInterval" -> "TimeInterval"

Output(kind, p) == [kind |-> kind, p |-> p]

AllOutputs ==
    {Output("Counter", 0), Output("MaxPointTime", 0), Output("MinPointTime", 0),
     Output("Percentile", PercentileP)}

Point(value, time) == [value |-> value, time |-> time]

Reading(label, output, value) == [label |-> label, output |-> output, value |-> value]

\* ------------------------------------------------------------------------
\* The histogram collaborator: a bag of the values recorded
\* ------------------------------------------------------------------------

HistogramIncrement(h, value, count) ==
    IF count = 0 THEN h ELSE h (+) [v \in {value} |-> count]

\* Option<u64> as a set: {} is None, {v} is Some(v)
HistogramPercentile(h, p) ==
    IF h = EmptyBag THEN {}
    ELSE LET total == BagCardinality(h)
             AtOrBelow(v) ==
                 BagCardinality([w \in {u \in DOMAIN h : U64Ge(v, u)} |-> h[w]])
         IN  {CHOOSE v \in DOMAIN h :
                 /\ AtOrBelow(v) * 100 >= p * total
                 /\ \A u \in DOMAIN h :
                        AtOrBelow(u) * 100 >= p * total => U64Ge(u, v)}

HistogramClear(h) == EmptyBag

\* ------------------------------------------------------------------------
\* State of one Channel, and of the calls made on it
\* ------------------------------------------------------------------------

VARIABLES
    name,        \* Channel.name
    source,      \* Channel.source
    counter,     \* Channel.counter
    histogram,   \* Channel.histogram: [some |-> present, data |-> bag of values]
    last_write,  \* Channel.last_write
    latched,     \* Channel.latched
    max,         \* Channel.max
    min,         \* Channel.min
    outputs,     \* Channel.outputs
    has_data,    \* Channel.has_data
    lastOp,      \* the call that returned last (add_output and delete_output
                 \* both as "set_outputs")
    ret,         \* what readings() or hash_map() returned, when it was the last call
    window,      \* the measurements accepted since construction or the last zero()
    mark,        \* how many of them came before the last latch()
    threads,     \* the calls in progress, one per thread
    baselines,   \* the threads that stored a Counter baseline, in that order
    name_lock,   \* the thread that holds the Mutex of Channel.name, 0 if none
    outputs_lock, \* the thread that holds the Mutex of Channel.outputs, 0 if none
    cell,        \* the value of an AtomicI8
    initial      \* the value the AtomicI8 was created with

chan == <<name, source, counter, histogram, last_write, latched, max, min,
          outputs, has_data>>

locks == <<name_lock, outputs_lock>>

atomic == <<cell, initial>>

vars == <<name, source, counter, histogram, last_write, latched, max, min,
          outputs, has_data, lastOp, ret, window, mark, threads, baselines,
          name_lock, outputs_lock, cell, initial>>

\* no thread holds a lock, and the AtomicI8 is not in use
Unlocked ==
    /\ name_lock = 0
    /\ outputs_lock = 0
    /\ cell = 0
    /\ initial = 0

\* Channel::new, for every source, with and without a histogram
New(n, src, hist) ==
    /\ name = n
    /\ source = src
    /\ counter = 0
    /\ histogram = hist
    /\ last_write = 0
    /\ latched = TRUE
    /\ max = Point(0, 0)
    /\ min = Point(0, 0)
    /\ outputs = {}
    /\ has_data = FALSE

NoHistogram == [some |-> FALSE, data |-> EmptyBag]

NewHistogram == [some |-> TRUE, data |-> EmptyBag]

Init ==
    /\ \E src \in Sources, hist \in {NoHistogram, NewHistogram} :
           New("channel", src, hist)
    /\ lastOp = "new"
    /\ ret = {}
    /\ window = <<>>
    /\ mark = 0
    /\ threads = <<>>
    /\ baselines = <<>>
    /\ Unlocked

\* `if let Some(ref histogram) = self.histogram { histogram.increment(..) }`
IncrementIfSome(h, value, count) ==
    IF h.some THEN [h EXCEPT !.data = HistogramIncrement(h.data, value, count)]
    ELSE h

\* `if let Some(ref histogram) = self.histogram { histogram.clear() }`
ClearIfSome(h) ==
    IF h.some THEN [h EXCEPT !.data = HistogramClear(h.data)] ELSE h

\* a variant of TrackMax: an equal value replaces the Point as well
TrackMaxOrEqual(p, value, time) ==
    IF U64Gt(p.time, 0)
    THEN (IF U64Ge(value, p.value) THEN Point(value, time) ELSE p)
    ELSE Point(value, time)

\* the update of the max Point by an observation
TrackMax(p, value, time) ==
    IF U64Gt(p.time, 0)
    THEN (IF U64Gt(value, p.value) THEN Point(value, time) ELSE p)
    ELSE Point(value, time)

\* the update of the min Point by an observation
TrackMin(p, value, time) ==
    IF U64Gt(p.time, 0)
    THEN (IF U64Lt(value, p.value) THEN Point(value, time) ELSE p)
    ELSE Point(value, time)

\* record_counter once the channel has data: the difference to the last
\* reading and the rate
record_counter_rate(value, time) ==
    LET delta_value == wrapping_sub(value, counter)
        delta_time  == wrapping_sub(time, last_write)
    IN  \E rate \in RateOf(delta_value, delta_time) :
           /\ counter' = wrapping_add(counter, delta_value)
           /\ histogram' = IncrementIfSome(histogram, rate, 1)
           /\ max' = TrackMax(max, rate, time)
           /\ min' = TrackMin(min, rate, time)
           /\ UNCHANGED has_data

\* a variant of record_counter_baseline: the baseline value is also counted
\* in the histogram
record_counter_baseline_counted(value, time) ==
    /\ counter' = value
    /\ has_data' = TRUE
    /\ histogram' = IncrementIfSome(histogram, value, 1)
    /\ UNCHANGED <<max, min>>

\* record_counter on a channel without data: the baseline
record_counter_baseline(value, time) ==
    /\ counter' = value
    /\ has_data' = TRUE
    /\ UNCHANGED <<histogram, max, min>>

\* a variant of record_counter: only the rate branch advances last_write
record_counter_rate_advances(value, time) ==
    IF source = "Counter"
    THEN IF has_data
         THEN record_counter_rate(value, time) /\ last_write' = time
         ELSE record_counter_baseline(value, time) /\ UNCHANGED last_write
    ELSE UNCHANGED <<counter, histogram, max, min, has_data, last_write>>

record_counter(value, time) ==
    IF source = "Counter"
    THEN /\ IF has_data
            THEN record_counter_rate(value, time)
            ELSE record_counter_baseline(value, time)
         /\ last_write' = time
    ELSE UNCHANGED <<counter, histogram, max, min, has_data, last_write>>

\* a variant of record_distribution: the counter counts the calls, not the
\* occurrences
record_distribution_counts_calls(value, count, time) ==
    IF source = "Distribution"
    THEN /\ counter' = wrapping_add(counter, 1)
         /\ histogram' = IncrementIfSome(histogram, value, count)
         /\ last_write' = time
         /\ UNCHANGED <<max, min, has_data>>
    ELSE UNCHANGED <<counter, histogram, max, min, has_data, last_write>>

record_distribution(value, count, time) ==
    IF source = "Distribution"
    THEN /\ counter' = wrapping_add(counter, count)
         /\ histogram' = IncrementIfSome(histogram, value, count)
         /\ last_write' = time
         /\ UNCHANGED <<max, min, has_data>>
    ELSE UNCHANGED <<counter, histogram, max, min, has_data, last_write>>

\* a variant of record_gauge: the source is not checked
record_gauge_unchecked(value, time) ==
    /\ counter' = value
    /\ histogram' = IncrementIfSome(histogram, value, 1)
    /\ max' = TrackMax(max, value, time)
    /\ min' = TrackMin(min, value, time)
    /\ last_write' = time
    /\ UNCHANGED has_data

\* a variant of record_gauge: the value is added to the counter
record_gauge_accumulates(value, time) ==
    IF source = "Gauge"
    THEN /\ counter' = wrapping_add(counter, value)
         /\ histogram' = IncrementIfSome(histogram, value, 1)
         /\ max' = TrackMax(max, value, time)
         /\ min' = TrackMin(min, value, time)
         /\ last_write' = time
         /\ UNCHANGED has_data
    ELSE UNCHANGED <<counter, histogram, max, min, has_data, last_write>>

record_gauge(value, time) ==
    IF source = "Gauge"
    THEN /\ counter' = value
         /\ histogram' = IncrementIfSome(histogram, value, 1)
         /\ max' = TrackMax(max, value, time)
         /\ min' = TrackMin(min, value, time)
         /\ last_write' = time
         /\ UNCHANGED has_data
    ELSE UNCHANGED <<counter, histogram, max, min, has_data, last_write>>

record_increment(count, time) ==
    IF source = "Counter"
    THEN /\ counter' = wrapping_add(counter, count)
         /\ histogram' = IncrementIfSome(histogram, count, 1)
         /\ last_write' = time
         /\ UNCHANGED <<max, min, has_data>>
    ELSE UNCHANGED <<counter, histogram, max, min, has_data, last_write>>

\* a variant of record_time_interval: only the max Point is tracked
record_time_interval_tracks_max(start, stop) ==
    IF source = "TimeInterval"
    THEN /\ counter' = wrapping_add(counter, 1)
         /\ \/ /\ U64Lt(stop, start)
               /\ UNCHANGED <<histogram, max, min>>
            \/ LET duration == stop - start
               IN  /\ histogram' = IncrementIfSome(histogram, duration, 1)
                   /\ max' = TrackMax(max, duration, start)
                   /\ min' = min
         /\ UNCHANGED <<has_data, last_write>>
    ELSE UNCHANGED <<counter, histogram, max, min, has_data, last_write>>

\* `stop - start` with stop < start overflows: the subtraction wraps in a
\* build without overflow checks and panics in a build with them, after the
\* counter was incremented
record_time_interval(start, stop) ==
    IF source = "TimeInterval"
    THEN /\ counter' = wrapping_add(counter, 1)
         /\ \/ /\ U64Lt(stop, start)
               /\ UNCHANGED <<histogram, max, min>>
            \/ LET duration == stop - start
               IN  /\ histogram' = IncrementIfSome(histogram, duration, 1)
                   /\ max' = TrackMax(max, duration, start)
                   /\ min' = TrackMin(min, duration, start)
         /\ UNCHANGED <<has_data, last_write>>
    ELSE UNCHANGED <<counter, histogram, max, min, has_data, last_write>>

\* Channel::record: the dispatch on the variant
record(m) ==
    /\ CASE m.kind = "Counter" -> record_counter(m.value, m.time)
         [] m.kind = "Distribution" -> record_distribution(m.value, m.count, m.time)
         [] m.kind = "Gauge" -> record_gauge(m.value, m.time)
         [] m.kind = "Increment" -> record_increment(m.count, m.time)
         [] m.kind = "TimeInterval" -> record_time_interval(m.start, m.stop)
    /\ UNCHANGED <<name, source, latched, outputs>>

\* a call of record(m), returning
Record(m) ==
    /\ LegalSource(m) = source => Len(window) < MaxWindow
    /\ record(m)
    /\ lastOp' = IF LegalSource(m) = source THEN "record" ELSE "record_dropped"
    /\ window' = IF LegalSource(m) = source THEN Append(window, m) ELSE window
    /\ ret' = {}
    /\ UNCHANGED <<mark, threads, baselines, locks, atomic>>

add_output(output) ==
    /\ outputs' = outputs \cup {output}
    /\ UNCHANGED <<name, source, counter, histogram, last_write, latched, max,
                   min, has_data>>

AddOutput(output) ==
    /\ add_output(output)
    /\ lastOp' = "set_outputs"
    /\ ret' = {}
    /\ UNCHANGED <<window, mark, threads, baselines, locks, atomic>>

delete_output(output) ==
    /\ outputs' = outputs \ {output}
    /\ UNCHANGED <<name, source, counter, histogram, last_write, latched, max,
                   min, has_data>>

DeleteOutput(output) ==
    /\ delete_output(output)
    /\ lastOp' = "set_outputs"
    /\ ret' = {}
    /\ UNCHANGED <<window, mark, threads, baselines, locks, atomic>>

\* a variant of latch: the min Point is not reset
latch_keeps_min ==
    /\ histogram' = IF latched THEN ClearIfSome(histogram) ELSE histogram
    /\ max' = Point(0, 0)
    /\ min' = min
    /\ UNCHANGED <<name, source, counter, last_write, latched, outputs, has_data>>

latch ==
    /\ histogram' = IF latched THEN ClearIfSome(histogram) ELSE histogram
    /\ max' = Point(0, 0)
    /\ min' = Point(0, 0)
    /\ UNCHANGED <<name, source, counter, last_write, latched, outputs, has_data>>

Latch ==
    /\ latch
    /\ lastOp' = "latch"
    /\ ret' = {}
    /\ mark' = Len(window)
    /\ UNCHANGED <<window, threads, baselines, locks, atomic>>

\* a variant of zero: the max Point is not reset
zero_keeps_max ==
    /\ has_data' = FALSE
    /\ last_write' = 0
    /\ counter' = 0
    /\ histogram' = ClearIfSome(histogram)
    /\ max' = max
    /\ min' = Point(0, 0)
    /\ UNCHANGED <<name, source, latched, outputs>>

zero ==
    /\ has_data' = FALSE
    /\ last_write' = 0
    /\ counter' = 0
    /\ histogram' = ClearIfSome(histogram)
    /\ max' = Point(0, 0)
    /\ min' = Point(0, 0)
    /\ UNCHANGED <<name, source, latched, outputs>>

Zero ==
    /\ zero
    /\ lastOp' = "zero"
    /\ ret' = {}
    /\ window' = <<>>
    /\ mark' = 0
    /\ UNCHANGED <<threads, baselines, locks, atomic>>

\* Channel::percentile
percentile(p) == IF histogram.some THEN HistogramPercentile(histogram.data, p) ELSE {}

\* a variant of readings: MaxPointTime reports the value of the max Point
readings_max_value ==
    UNION {CASE output.kind = "Counter" -> {Reading(name, output, counter)}
             [] output.kind = "MaxPointTime" ->
                    IF U64Gt(max.time, 0)
                    THEN {Reading(name, output, max.value)} ELSE {}
             [] output.kind = "MinPointTime" ->
                    IF U64Gt(max.time, 0)
                    THEN {Reading(name, output, min.time)} ELSE {}
             [] output.kind = "Percentile" ->
                    {Reading(name, output, value) : value \in percentile(output.p)}
           : output \in outputs}

\* the Vec<Reading> of readings(), as a set: the order is that of the HashSet
readings ==
    UNION {CASE output.kind = "Counter" -> {Reading(name, output, counter)}
             [] output.kind = "MaxPointTime" ->
                    IF U64Gt(max.time, 0)
                    THEN {Reading(name, output, max.time)} ELSE {}
             [] output.kind = "MinPointTime" ->
                    IF U64Gt(max.time, 0)
                    THEN {Reading(name, output, min.time)} ELSE {}
             [] output.kind = "Percentile" ->
                    {Reading(name, output, value) : value \in percentile(output.p)}
           : output \in outputs}

Readings ==
    /\ ret' = readings
    /\ lastOp' = "readings"
    /\ UNCHANGED <<chan, window, mark, threads, baselines, locks, atomic>>

Entry(output, value) == [output |-> output, value |-> value]

\* the HashMap<Output, u64> of hash_map(), as the set of its entries
hash_map ==
    UNION {CASE output.kind = "Counter" -> {Entry(output, counter)}
             [] output.kind = "MaxPointTime" ->
                    IF U64Gt(max.time, 0)
                    THEN {Entry(output, max.time)} ELSE {}
             [] output.kind = "MinPointTime" ->
                    IF U64Gt(max.time, 0)
                    THEN {Entry(output, min.time)} ELSE {}
             [] output.kind = "Percentile" ->
                    {Entry(output, value) : value \in percentile(output.p)}
           : output \in outputs}

HashMap ==
    /\ ret' = hash_map
    /\ lastOp' = "hash_map"
    /\ UNCHANGED <<chan, window, mark, threads, baselines, locks, atomic>>

Next ==
    \/ \E m \in Measurements : Record(m)
    \/ \E output \in AllOutputs : AddOutput(output)
    \/ \E output \in AllOutputs : DeleteOutput(output)
    \/ Latch
    \/ Zero
    \/ Readings
    \/ HashMap

Spec == Init /\ [][Next]_vars

\* ------------------------------------------------------------------------
\* Concurrent producers: every thread makes one record() call of a
\* measurement that is legal on the channel's source (a call of any other
\* measurement returns from its source check), and every access to an
\* atomic field of the channel is a step of its own.  A thread
\* holds the measurement m of its call, its position pc, delta_value (dv)
\* and the value x it tracks (the rate, the gauge value or the duration).
\* ------------------------------------------------------------------------

\* number of producer threads
NumThreads == 2

Threads == 1..NumThreads

Thread(pc, m, dv, x) == [pc |-> pc, m |-> m, dv |-> dv, x |-> x]

InitConc ==
    /\ \E src \in Sources, hist \in {NoHistogram, NewHistogram} :
           New("channel", src, hist)
    /\ lastOp = "new"
    /\ ret = {}
    /\ window = <<>>
    /\ mark = 0
    /\ threads \in [Threads -> {Thread("start", m, 0, 0) :
                                  m \in {l \in Measurements : LegalSource(l) = source}}]
    /\ baselines = <<>>
    /\ Unlocked

Goto(th, pc) == threads' = [threads EXCEPT ![th].pc = pc]

\* the step after the histogram was incremented, or found absent
AfterHistogram(m) ==
    IF m.kind \in {"Distribution", "Increment"} THEN "set_last_write" ELSE "max_time"

\* the step after the counter was updated
AfterCounter(m) == IF histogram.some THEN "histogram" ELSE AfterHistogram(m)

\* the step after the min Point was tracked
AfterMin(m) == IF m.kind = "TimeInterval" THEN "done" ELSE "set_last_write"

\* the time an observation is tracked at
TrackTime(m) == IF m.kind = "TimeInterval" THEN m.start ELSE m.time

\* record(): the dispatch and the check of the source
ConcCall(th) ==
    LET m == threads[th].m
    IN  /\ threads[th].pc = "start"
        /\ threads' =
             [threads EXCEPT ![th] =
                CASE m.kind = "Counter" ->
                       Thread(IF source = "Counter" THEN "load_has_data" ELSE "done",
                              m, 0, 0)
                  [] m.kind = "Distribution" ->
                       Thread(IF source = "Distribution" THEN "add" ELSE "done",
                              m, 0, m.value)
                  [] m.kind = "Gauge" ->
                       Thread(IF source = "Gauge" THEN "set_counter" ELSE "done",
                              m, 0, m.value)
                  [] m.kind = "Increment" ->
                       Thread(IF source = "Counter" THEN "add" ELSE "done",
                              m, 0, m.count)
                  [] m.kind = "TimeInterval" ->
                       Thread(IF source = "TimeInterval" THEN "add" ELSE "done",
                              m, 0, 0)]
        /\ UNCHANGED <<chan, lastOp, ret, window, mark, baselines, locks, atomic>>

\* record_counter: self.has_data.load(..)
ConcLoadHasData(th) ==
    /\ threads[th].pc = "load_has_data"
    /\ Goto(th, IF has_data THEN "get_counter" ELSE "set_baseline")
    /\ UNCHANGED <<chan, lastOp, ret, window, mark, baselines, locks, atomic>>

\* record_counter: value.wrapping_sub(self.counter.get())
ConcGetCounter(th) ==
    /\ threads[th].pc = "get_counter"
    /\ threads' = [threads EXCEPT ![th].pc = "get_last_write",
                                  ![th].dv = wrapping_sub(threads[th].m.value, counter)]
    /\ UNCHANGED <<chan, lastOp, ret, window, mark, baselines, locks, atomic>>

\* record_counter: time.wrapping_sub(self.last_write.get()), and the rate
ConcGetLastWrite(th) ==
    /\ threads[th].pc = "get_last_write"
    /\ \E rate \in RateOf(threads[th].dv,
                          wrapping_sub(threads[th].m.time, last_write)) :
           threads' = [threads EXCEPT ![th].pc = "add", ![th].x = rate]
    /\ UNCHANGED <<chan, lastOp, ret, window, mark, baselines, locks, atomic>>

\* what a call adds to the counter
Added(t) ==
    CASE t.m.kind = "Counter" -> t.dv
      [] t.m.kind = "Distribution" -> t.m.count
      [] t.m.kind = "Increment" -> t.m.count
      [] t.m.kind = "TimeInterval" -> 1

\* a variant of ConcAdd: the counter is set, not added to
ConcAddStores(th) ==
    LET m == threads[th].m
    IN  /\ threads[th].pc = "add"
        /\ counter' = Added(threads[th])
        /\ IF m.kind = "TimeInterval"
           THEN \/ /\ U64Lt(m.stop, m.start)
                   /\ Goto(th, "panicked")
                \/ threads' = [threads EXCEPT ![th].pc = AfterCounter(m),
                                              ![th].x = m.stop - m.start]
           ELSE Goto(th, AfterCounter(m))
        /\ UNCHANGED <<name, source, histogram, last_write, latched, max, min,
                       outputs, has_data, lastOp, ret, window, mark, baselines, locks, atomic>>

\* self.counter.add(..); in record_time_interval also `stop - start`, which
\* wraps or panics when stop < start
ConcAdd(th) ==
    LET m == threads[th].m
    IN  /\ threads[th].pc = "add"
        /\ counter' = wrapping_add(counter, Added(threads[th]))
        /\ IF m.kind = "TimeInterval"
           THEN \/ /\ U64Lt(m.stop, m.start)
                   /\ Goto(th, "panicked")
                \/ threads' = [threads EXCEPT ![th].pc = AfterCounter(m),
                                              ![th].x = m.stop - m.start]
           ELSE Goto(th, AfterCounter(m))
        /\ UNCHANGED <<name, source, histogram, last_write, latched, max, min,
                       outputs, has_data, lastOp, ret, window, mark, baselines, locks, atomic>>

\* a variant of ConcSetBaseline: the value is added to the counter
ConcSetBaselineAdds(th) ==
    /\ threads[th].pc = "set_baseline"
    /\ counter' = wrapping_add(counter, threads[th].m.value)
    /\ baselines' = Append(baselines, th)
    /\ Goto(th, "store_has_data")
    /\ UNCHANGED <<name, source, histogram, last_write, latched, max, min,
                   outputs, has_data, lastOp, ret, window, mark, locks, atomic>>

\* record_counter, baseline: self.counter.set(value)
ConcSetBaseline(th) ==
    /\ threads[th].pc = "set_baseline"
    /\ counter' = threads[th].m.value
    /\ baselines' = Append(baselines, th)
    /\ Goto(th, "store_has_data")
    /\ UNCHANGED <<name, source, histogram, last_write, latched, max, min,
                   outputs, has_data, lastOp, ret, window, mark, locks, atomic>>

\* record_counter, baseline: self.has_data.store(true, ..)
ConcStoreHasData(th) ==
    /\ threads[th].pc = "store_has_data"
    /\ has_data' = TRUE
    /\ Goto(th, "set_last_write")
    /\ UNCHANGED <<name, source, counter, histogram, last_write, latched, max,
                   min, outputs, lastOp, ret, window, mark, baselines, locks, atomic>>

\* record_gauge: self.counter.set(value)
ConcSetCounter(th) ==
    /\ threads[th].pc = "set_counter"
    /\ counter' = threads[th].m.value
    /\ Goto(th, AfterCounter(threads[th].m))
    /\ UNCHANGED <<name, source, histogram, last_write, latched, max, min,
                   outputs, has_data, lastOp, ret, window, mark, baselines, locks, atomic>>

\* histogram.increment(..)
ConcHistogram(th) ==
    LET m == threads[th].m
    IN  /\ threads[th].pc = "histogram"
        /\ histogram' = IncrementIfSome(histogram, threads[th].x,
                            IF m.kind = "Distribution" THEN m.count ELSE 1)
        /\ Goto(th, AfterHistogram(m))
        /\ UNCHANGED <<name, source, counter, last_write, latched, max, min,
                       outputs, has_data, lastOp, ret, window, mark, baselines, locks, atomic>>

\* self.max.time() > 0
ConcMaxTime(th) ==
    /\ threads[th].pc = "max_time"
    /\ Goto(th, IF U64Gt(max.time, 0) THEN "max_value" ELSE "max_set")
    /\ UNCHANGED <<chan, lastOp, ret, window, mark, baselines, locks, atomic>>

\* x > self.max.value()
ConcMaxValue(th) ==
    /\ threads[th].pc = "max_value"
    /\ Goto(th, IF U64Gt(threads[th].x, max.value) THEN "max_set" ELSE "min_time")
    /\ UNCHANGED <<chan, lastOp, ret, window, mark, baselines, locks, atomic>>

\* self.max.set(x, time)
ConcMaxSet(th) ==
    /\ threads[th].pc = "max_set"
    /\ max' = Point(threads[th].x, TrackTime(threads[th].m))
    /\ Goto(th, "min_time")
    /\ UNCHANGED <<name, source, counter, histogram, last_write, latched, min,
                   outputs, has_data, lastOp, ret, window, mark, baselines, locks, atomic>>

\* self.min.time() > 0
ConcMinTime(th) ==
    /\ threads[th].pc = "min_time"
    /\ Goto(th, IF U64Gt(min.time, 0) THEN "min_value" ELSE "min_set")
    /\ UNCHANGED <<chan, lastOp, ret, window, mark, baselines, locks, atomic>>

\* x < self.min.value()
ConcMinValue(th) ==
    /\ threads[th].pc = "min_value"
    /\ Goto(th, IF U64Lt(threads[th].x, min.value)
                THEN "min_set" ELSE AfterMin(threads[th].m))
    /\ UNCHANGED <<chan, lastOp, ret, window, mark, baselines, locks, atomic>>

\* self.min.set(x, time)
ConcMinSet(th) ==
    /\ threads[th].pc = "min_set"
    /\ min' = Point(threads[th].x, TrackTime(threads[th].m))
    /\ Goto(th, AfterMin(threads[th].m))
    /\ UNCHANGED <<name, source, counter, histogram, last_write, latched, max,
                   outputs, has_data, lastOp, ret, window, mark, baselines, locks, atomic>>

\* self.last_write.set(time)
ConcSetLastWrite(th) ==
    /\ threads[th].pc = "set_last_write"
    /\ last_write' = threads[th].m.time
    /\ Goto(th, "done")
    /\ UNCHANGED <<name, source, counter, histogram, latched, max, min,
                   outputs, has_data, lastOp, ret, window, mark, baselines, locks, atomic>>

NextConc ==
    \E th \in Threads :
        \/ ConcCall(th)
        \/ ConcLoadHasData(th)
        \/ ConcGetCounter(th)
        \/ ConcGetLastWrite(th)
        \/ ConcAdd(th)
        \/ ConcSetBaseline(th)
        \/ ConcStoreHasData(th)
        \/ ConcSetCounter(th)
        \/ ConcHistogram(th)
        \/ ConcMaxTime(th)
        \/ ConcMaxValue(th)
        \/ ConcMaxSet(th)
        \/ ConcMinTime(th)
        \/ ConcMinValue(th)
        \/ ConcMinSet(th)
        \/ ConcSetLastWrite(th)

SpecConc == InitConc /\ [][NextConc]_vars

\* ------------------------------------------------------------------------
\* Concurrent producers on a Counter-source channel that holds a baseline:
\* the state after Channel::new and one record() of the Counter measurement
\* base
\* ------------------------------------------------------------------------

InitRate ==
    /\ \E hist \in {NoHistogram, NewHistogram},
          base \in {m \in Measurements : m.kind = "Counter"} :
           /\ name = "channel"
           /\ source = "Counter"
           /\ counter = base.value
           /\ histogram = hist
           /\ last_write = base.time
           /\ latched = TRUE
           /\ max = Point(0, 0)
           /\ min = Point(0, 0)
           /\ outputs = {}
           /\ has_data = TRUE
           /\ window = <<base>>
    /\ lastOp = "record"
    /\ ret = {}
    /\ mark = 0
    /\ threads \in [Threads -> {Thread("start", m, 0, 0) :
                                  m \in {l \in Measurements : LegalSource(l) = "Counter"}}]
    /\ baselines = <<>>
    /\ Unlocked

\* the steps of record_counter's rate branch and of record_increment
NextRate ==
    \E th \in Threads :
        \/ ConcCall(th)
        \/ ConcLoadHasData(th)
        \/ ConcGetCounter(th)
        \/ ConcGetLastWrite(th)
        \/ ConcAdd(th)
        \/ ConcHistogram(th)
        \/ ConcMaxTime(th)
        \/ ConcMaxValue(th)
        \/ ConcMaxSet(th)
        \/ ConcMinTime(th)
        \/ ConcMinValue(th)
        \/ ConcMinSet(th)
        \/ ConcSetLastWrite(th)

SpecRate == InitRate /\ [][NextRate]_vars

\* ------------------------------------------------------------------------
\* Concurrent callers: every thread makes one call of record, name,
\* add_output, delete_output, readings, hash_map, latch or zero on a channel
\* on which outputs were registered.  Taking and releasing a Mutex and every
\* access to an atomic field is a step of its own; a thread waits at
\* lock_name or lock_outputs while another thread holds the Mutex.  A thread
\* of add_output or delete_output holds the output in x; a thread of
\* readings or hash_map holds in x the outputs still to visit (todo), the
\* output it is at and the value of `if let Some(value)`, and in dv the
\* result so far; a thread of name holds in dv the String it returns.
\* ------------------------------------------------------------------------

\* a call other than record
Call(kind) == [kind |-> kind]

\* where readings() and hash_map() are in their loop over the outputs
Cursor(todo, at, value) == [todo |-> todo, at |-> at, value |-> value]

\* the measurement the record() calls carry
LockMeasurement == Measurement("Gauge", 29, 0, 29, 0, 0)

\* the outputs registered before the calls start, the output that
\* add_output adds and the output that delete_output removes
LockOutputs == {Output("Counter", 0), Output("MaxPointTime", 0)}

AddedOutput == Output("Percentile", PercentileP)

DeletedOutput == Output("Counter", 0)

LockCalls ==
    {"record", "name", "add_output", "delete_output", "readings", "hash_map",
     "latch", "zero"}

\* a thread at the first step of its call
Calling(kind) ==
    CASE kind = "record" -> Thread("start", LockMeasurement, 0, 0)
      [] kind = "name" -> Thread("lock_name", Call(kind), "", 0)
      [] kind = "add_output" -> Thread("lock_outputs", Call(kind), 0, AddedOutput)
      [] kind = "delete_output" -> Thread("lock_outputs", Call(kind), 0, DeletedOutput)
      [] kind \in {"readings", "hash_map"} ->
             Thread("lock_outputs", Call(kind), {}, Cursor({}, DeletedOutput, 0))
      [] kind = "latch" -> Thread("clear_histogram", Call(kind), 0, 0)
      [] kind = "zero" -> Thread("zero_has_data", Call(kind), 0, 0)

\* the state after Channel::new and add_output of the outputs of LockOutputs
InitLocks ==
    /\ name = "channel"
    /\ source = LegalSource(LockMeasurement)
    /\ counter = 0
    /\ histogram = NewHistogram
    /\ last_write = 0
    /\ latched = TRUE
    /\ max = Point(0, 0)
    /\ min = Point(0, 0)
    /\ outputs = LockOutputs
    /\ has_data = FALSE
    /\ lastOp = "set_outputs"
    /\ ret = {}
    /\ window = <<>>
    /\ mark = 0
    /\ \E calls \in [Threads -> LockCalls] :
           threads = [th \in Threads |-> Calling(calls[th])]
    /\ baselines = <<>>
    /\ Unlocked

\* self.name.lock().unwrap()
ConcLockName(th) ==
    /\ threads[th].pc = "lock_name"
    /\ name_lock = 0
    /\ name_lock' = th
    /\ Goto(th, "name_locked")
    /\ UNCHANGED <<chan, lastOp, ret, window, mark, baselines, outputs_lock, atomic>>

\* name(): .clone(), and the guard of the name is dropped
ConcCloneName(th) ==
    /\ threads[th].pc = "name_locked"
    /\ name_lock' = 0
    /\ threads' = IF threads[th].m.kind = "name"
                  THEN [threads EXCEPT ![th].pc = "done", ![th].dv = name]
                  ELSE [threads EXCEPT ![th].pc = "push"]
    /\ UNCHANGED <<chan, lastOp, ret, window, mark, baselines, outputs_lock, atomic>>

\* self.outputs.lock().unwrap()
ConcLockOutputs(th) ==
    /\ threads[th].pc = "lock_outputs"
    /\ outputs_lock = 0
    /\ outputs_lock' = th
    /\ threads' =
         CASE threads[th].m.kind = "add_output" -> [threads EXCEPT ![th].pc = "insert"]
           [] threads[th].m.kind = "delete_output" -> [threads EXCEPT ![th].pc = "remove"]
           [] threads[th].m.kind \in {"readings", "hash_map"} ->
                  [threads EXCEPT ![th].pc = "visit", ![th].x.todo = outputs]
    /\ UNCHANGED <<chan, lastOp, ret, window, mark, baselines, name_lock, atomic>>

\* add_output: outputs.insert(output)
ConcInsert(th) ==
    /\ threads[th].pc = "insert"
    /\ outputs' = outputs \cup {threads[th].x}
    /\ Goto(th, "unlock_outputs")
    /\ UNCHANGED <<name, source, counter, histogram, last_write, latched, max,
                   min, has_data, lastOp, ret, window, mark, baselines, locks, atomic>>

\* delete_output: outputs.remove(&output)
ConcRemove(th) ==
    /\ threads[th].pc = "remove"
    /\ outputs' = outputs \ {threads[th].x}
    /\ Goto(th, "unlock_outputs")
    /\ UNCHANGED <<name, source, counter, histogram, last_write, latched, max,
                   min, has_data, lastOp, ret, window, mark, baselines, locks, atomic>>

\* a variant of AfterGate: hash_map() builds its entries with name() as well
AfterGateNamed(m) == "lock_name"

\* the step after an output passed its test: readings() evaluates
\* self.name() for the Reading, hash_map() inserts
AfterGate(m) == IF m.kind = "readings" THEN "lock_name" ELSE "push"

\* readings(), hash_map(): the loop over the outputs, in the order of the
\* HashSet, and the test of the output the loop is at
ConcVisit(th) ==
    LET t == threads[th]
    IN  /\ t.pc = "visit"
        /\ IF t.x.todo = {}
           THEN Goto(th, "unlock_outputs")
           ELSE \E output \in t.x.todo :
                  LET rest == t.x.todo \ {output}
                      some == IF output.kind = "Percentile"
                              THEN percentile(output.p) ELSE {}
                      pass == CASE output.kind = "Counter" -> TRUE
                                [] output.kind = "MaxPointTime" -> U64Gt(max.time, 0)
                                [] output.kind = "MinPointTime" -> U64Gt(max.time, 0)
                                [] output.kind = "Percentile" -> some # {}
                      value == IF some = {} THEN 0 ELSE CHOOSE v \in some : TRUE
                  IN  threads' =
                        [threads EXCEPT
                           ![th].pc = IF pass THEN AfterGate(t.m) ELSE "visit",
                           ![th].x = Cursor(rest, output, value)]
        /\ UNCHANGED <<chan, lastOp, ret, window, mark, baselines, locks, atomic>>

\* result.push(Reading::new(.., output.clone(), value)), or
\* result.insert(output.clone(), value), with the value read now
ConcPush(th) ==
    LET t == threads[th]
        value == CASE t.x.at.kind = "Counter" -> counter
                   [] t.x.at.kind = "MaxPointTime" -> max.time
                   [] t.x.at.kind = "MinPointTime" -> min.time
                   [] t.x.at.kind = "Percentile" -> t.x.value
    IN  /\ t.pc = "push"
        /\ threads' =
             [threads EXCEPT
                ![th].pc = "visit",
                ![th].dv = t.dv \cup {IF t.m.kind = "readings"
                                      THEN Reading(name, t.x.at, value)
                                      ELSE Entry(t.x.at, value)}]
        /\ UNCHANGED <<chan, lastOp, ret, window, mark, baselines, locks, atomic>>

\* a variant of ConcUnlockOutputs: the guard is leaked, the Mutex stays locked
ConcUnlockOutputsLeaks(th) ==
    /\ threads[th].pc = "unlock_outputs"
    /\ outputs_lock' = outputs_lock
    /\ Goto(th, "done")
    /\ UNCHANGED <<chan, lastOp, ret, window, mark, baselines, name_lock, atomic>>

\* the guard of the outputs is dropped as the call returns
ConcUnlockOutputs(th) ==
    /\ threads[th].pc = "unlock_outputs"
    /\ outputs_lock' = 0
    /\ Goto(th, "done")
    /\ UNCHANGED <<chan, lastOp, ret, window, mark, baselines, name_lock, atomic>>

\* latch(): histogram.clear() if latched; zero(): histogram.clear()
ConcClearHistogram(th) ==
    /\ threads[th].pc = "clear_histogram"
    /\ histogram' = IF threads[th].m.kind = "zero" \/ latched
                    THEN ClearIfSome(histogram) ELSE histogram
    /\ Goto(th, "reset_max")
    /\ UNCHANGED <<name, source, counter, last_write, latched, max, min,
                   outputs, has_data, lastOp, ret, window, mark, baselines, locks, atomic>>

\* latch(), zero(): self.max.set(0, 0)
ConcResetMax(th) ==
    /\ threads[th].pc = "reset_max"
    /\ max' = Point(0, 0)
    /\ Goto(th, "reset_min")
    /\ UNCHANGED <<name, source, counter, histogram, last_write, latched, min,
                   outputs, has_data, lastOp, ret, window, mark, baselines, locks, atomic>>

\* latch(), zero(): self.min.set(0, 0)
ConcResetMin(th) ==
    /\ threads[th].pc = "reset_min"
    /\ min' = Point(0, 0)
    /\ Goto(th, "done")
    /\ UNCHANGED <<name, source, counter, histogram, last_write, latched, max,
                   outputs, has_data, lastOp, ret, window, mark, baselines, locks, atomic>>

\* zero(): self.has_data.store(false, ..)
ConcZeroHasData(th) ==
    /\ threads[th].pc = "zero_has_data"
    /\ has_data' = FALSE
    /\ Goto(th, "zero_last_write")
    /\ UNCHANGED <<name, source, counter, histogram, last_write, latched, max,
                   min, outputs, lastOp, ret, window, mark, baselines, locks, atomic>>

\* zero(): self.last_write.set(0)
ConcZeroLastWrite(th) ==
    /\ threads[th].pc = "zero_last_write"
    /\ last_write' = 0
    /\ Goto(th, "zero_counter")
    /\ UNCHANGED <<name, source, counter, histogram, latched, max, min,
                   outputs, has_data, lastOp, ret, window, mark, baselines, locks, atomic>>

\* zero(): self.counter.set(0)
ConcZeroCounter(th) ==
    /\ threads[th].pc = "zero_counter"
    /\ counter' = 0
    /\ Goto(th, "clear_histogram")
    /\ UNCHANGED <<name, source, histogram, last_write, latched, max, min,
                   outputs, has_data, lastOp, ret, window, mark, baselines, locks, atomic>>

\* the steps of thread th
StepLocks(th) ==
    \/ ConcCall(th)
    \/ ConcSetCounter(th)
    \/ ConcHistogram(th)
    \/ ConcMaxTime(th)
    \/ ConcMaxValue(th)
    \/ ConcMaxSet(th)
    \/ ConcMinTime(th)
    \/ ConcMinValue(th)
    \/ ConcMinSet(th)
    \/ ConcSetLastWrite(th)
    \/ ConcLockName(th)
    \/ ConcCloneName(th)
    \/ ConcLockOutputs(th)
    \/ ConcInsert(th)
    \/ ConcRemove(th)
    \/ ConcVisit(th)
    \/ ConcPush(th)
    \/ ConcUnlockOutputs(th)
    \/ ConcClearHistogram(th)
    \/ ConcResetMax(th)
    \/ ConcResetMin(th)
    \/ ConcZeroHasData(th)
    \/ ConcZeroLastWrite(th)
    \/ ConcZeroCounter(th)

NextLocks == \E th \in Threads : StepLocks(th)

\* every thread that can take a step eventually takes one
SpecLocks ==
    InitLocks /\ [][NextLocks]_vars /\ \A th \in Threads : WF_vars(StepLocks(th))

\* ------------------------------------------------------------------------
\* AtomicPrimitive for AtomicI8: every thread makes one call on one shared
\* cell; each method is one atomic operation of the AtomicI8 it delegates to.
\* A thread holds its call m, and in x the value the call returned.
\* ------------------------------------------------------------------------

\* the i8 values the calls carry
I8Values == {-128, 0, 127}

\* a Result<i8, i8>; a plain i8 or () that a method returns is held as Ok
Ok(v) == [ok |-> TRUE, value |-> v]

Err(v) == [ok |-> FALSE, value |-> v]

AtomicCall(kind, current, new) == [kind |-> kind, current |-> current, new |-> new]

AtomicCalls ==
    {AtomicCall("load", 0, 0)}
    \cup {AtomicCall(k, 0, n) : k \in {"store", "swap"}, n \in I8Values}
    \cup {AtomicCall(k, c, n) :
              k \in {"compare_and_swap", "compare_exchange", "compare_exchange_weak"},
              c \in I8Values, n \in I8Values}

\* the methods, on a cell holding c: the cell afterwards and the value returned
load(c) == [cell |-> c, result |-> Ok(c)]

store(c, value) == [cell |-> value, result |-> Ok(0)]

swap(c, value) == [cell |-> value, result |-> Ok(c)]

compare_and_swap(c, current, new) ==
    [cell |-> IF c = current THEN new ELSE c, result |-> Ok(c)]

\* a variant of compare_exchange: new is stored on failure as well
compare_exchange_stores(c, current, new) ==
    IF c = current THEN [cell |-> new, result |-> Ok(c)]
    ELSE [cell |-> new, result |-> Err(c)]

compare_exchange(c, current, new) ==
    IF c = current THEN [cell |-> new, result |-> Ok(c)]
    ELSE [cell |-> c, result |-> Err(c)]

\* compare_exchange_weak may fail although the comparison succeeds
compare_exchange_weak(c, current, new) ==
    {compare_exchange(c, current, new), [cell |-> c, result |-> Err(c)]}

InitAtomic ==
    /\ New("channel", "Counter", NoHistogram)
    /\ lastOp = "new"
    /\ ret = {}
    /\ window = <<>>
    /\ mark = 0
    /\ threads \in [Threads -> {Thread("start", m, 0, Err(0)) : m \in AtomicCalls}]
    /\ baselines = <<>>
    /\ name_lock = 0
    /\ outputs_lock = 0
    /\ cell \in I8Values
    /\ initial = cell

\* the call of thread th takes effect and returns
Returns(th, outcome) ==
    /\ cell' = outcome.cell
    /\ threads' = [threads EXCEPT ![th].pc = "done", ![th].x = outcome.result]
    /\ UNCHANGED <<chan, lastOp, ret, window, mark, baselines, locks, initial>>

AtomicLoad(th) ==
    /\ threads[th].pc = "start"
    /\ threads[th].m.kind = "load"
    /\ Returns(th, load(cell))

AtomicStore(th) ==
    /\ threads[th].pc = "start"
    /\ threads[th].m.kind = "store"
    /\ Returns(th, store(cell, threads[th].m.new))

AtomicSwap(th) ==
    /\ threads[th].pc = "start"
    /\ threads[th].m.kind = "swap"
    /\ Returns(th, swap(cell, threads[th].m.new))

AtomicCompareAndSwap(th) ==
    /\ threads[th].pc = "start"
    /\ threads[th].m.kind = "compare_and_swap"
    /\ Returns(th, compare_and_swap(cell, threads[th].m.current, threads[th].m.new))

AtomicCompareExchange(th) ==
    /\ threads[th].pc = "start"
    /\ threads[th].m.kind = "compare_exchange"
    /\ Returns(th, compare_exchange(cell, threads[th].m.current, threads[th].m.new))

AtomicCompareExchangeWeak(th) ==
    /\ threads[th].pc = "start"
    /\ threads[th].m.kind = "compare_exchange_weak"
    /\ \E outcome \in compare_exchange_weak(cell, threads[th].m.current,
                                             threads[th].m.new) :
           Returns(th, outcome)

NextAtomic ==
    \E th \in Threads :
        \/ AtomicLoad(th)
        \/ AtomicStore(th)
        \/ AtomicSwap(th)
        \/ AtomicCompareAndSwap(th)
        \/ AtomicCompareExchange(th)
        \/ AtomicCompareExchangeWeak(th)

SpecAtomic == InitAtomic /\ [][NextAtomic]_vars

\* ------------------------------------------------------------------------
\* Properties of the sequential calls
\* ------------------------------------------------------------------------

Last(w) == w[Len(w)]

\* the measurements accepted since construction or the last latch() or zero()
SinceLatch == SubSeq(window, mark + 1, Len(window))

\* C1: a record() of a measurement whose legal Source is not the channel's
\* leaves counter, last_write, has_data, the histogram, the max and min
\* Points and the outputs unchanged.
C1_MismatchedRecordIsNoOp ==
    [][lastOp' = "record_dropped" =>
          UNCHANGED <<counter, last_write, has_data, histogram, max, min, outputs>>]_vars

\* a mismatched measurement was dropped by a channel that holds data
C1_Witness ==
    /\ lastOp = "record_dropped"
    /\ counter # 0
    /\ last_write # 0
    /\ histogram.data # EmptyBag
    /\ max.time # 0
    /\ outputs # {}

C3_FirstCounterIsBaseline ==
    [][(/\ ~has_data
        /\ lastOp' = "record"
        /\ Len(window') = Len(window) + 1
        /\ Last(window').kind = "Counter")
       => /\ counter' = Last(window').value
          /\ has_data'
          /\ last_write' = Last(window').time
          /\ histogram' = histogram
          /\ max' = max
          /\ min' = min]_vars

\* a baseline was taken, at a nonzero value and time, on a channel whose
\* histogram already held an Increment
C3_Witness ==
    /\ lastOp = "record"
    /\ Len(window) = 2
    /\ window[1].kind = "Increment"
    /\ window[2].kind = "Counter"
    /\ window[2].value # 0
    /\ window[2].time # 0
    /\ has_data
    /\ histogram.data = [v \in {window[1].count} |-> 1]
    /\ max.time = 0

\* floor(delta_value * 10^9 / delta_time), for 0 <= delta_value, 0 < delta_time
ExactRate(delta_value, delta_time) ==
    BitsToNat(DivBits(MulBits(NatToBits(delta_value), NatToBits(NanosPerSecond)),
                      NatToBits(delta_time)).q)

\* C4: on a fresh Counter-source channel, Counter(v1, t1) then Counter(v2, t2)
\* with v2 >= v1 and t2 > t1 gives the histogram exactly the increment
\* (rate, 1) and sets max and min to (rate, t2), where
\* rate = (v2 - v1) * 1e9 / (t2 - t1) truncated to an integer.
C4_SecondCounterRate ==
    (/\ lastOp = "record"
     /\ Len(window) = 2
     /\ window[1].kind = "Counter"
     /\ window[2].kind = "Counter"
     /\ U64Ge(window[2].value, window[1].value)
     /\ U64Gt(window[2].time, window[1].time))
    => LET rate == ExactRate(window[2].value - window[1].value,
                             window[2].time - window[1].time)
       IN  /\ histogram.some => histogram.data = [v \in {rate} |-> 1]
           /\ max = Point(rate, window[2].time)
           /\ min = Point(rate, window[2].time)

\* C5: on a Gauge-source channel counter() after each record is the value of
\* that Gauge measurement.
C5_GaugeOverwritesCounter ==
    (lastOp = "record" /\ Last(window).kind = "Gauge") =>
        counter = Last(window).value

\* a second, different gauge value was recorded after a latch(), on a
\* channel with a histogram
C5_Witness ==
    /\ lastOp = "record"
    /\ Len(window) = 2
    /\ mark = 1
    /\ window[1].kind = "Gauge"
    /\ window[2].kind = "Gauge"
    /\ window[1].value # 0
    /\ window[2].value # window[1].value
    /\ histogram.some
    /\ counter = window[2].value

RECURSIVE SumOfCounts(_)
SumOfCounts(w) == IF w = <<>> THEN 0 ELSE wrapping_add(Head(w).count, SumOfCounts(Tail(w)))

AllOfKind(w, kind) == \A i \in 1..Len(w) : w[i].kind = kind

\* C6: while only Distribution measurements (on a Distribution-source
\* channel), or only Increment measurements (on a Counter-source channel),
\* were accepted since construction or zero(), counter() is the sum of
\* their counts.
C6_CounterIsSumOfCounts ==
    (AllOfKind(window, "Distribution") \/ AllOfKind(window, "Increment")) =>
        counter = SumOfCounts(window)

\* two Distribution measurements of different counts were recorded
C6_Witness ==
    /\ lastOp = "record"
    /\ Len(window) = 2
    /\ AllOfKind(window, "Distribution")
    /\ window[1].count # window[2].count
    /\ counter = 3

MaxPointTime == Output("MaxPointTime", 0)

MinPointTime == Output("MinPointTime", 0)

\* C8: after zero(): counter() is 0, has_data is false, last_write is 0,
\* percentile(p) is none for every p, and readings() and hash_map() hold no
\* MaxPointTime, MinPointTime or Percentile entry.
C8_ZeroRestoresDefaults ==
    lastOp = "zero" =>
        /\ counter = 0
        /\ ~has_data
        /\ last_write = 0
        /\ \A p \in 0..100 : percentile(p) = {}
        /\ \A r \in readings : r.output.kind = "Counter"
        /\ \A e \in hash_map : e.output.kind = "Counter"

\* zero() returned on a channel with a histogram and every output registered
\* (the Counter reading shows that readings() is not empty)
C8_Witness ==
    /\ lastOp = "zero"
    /\ histogram.some
    /\ outputs = AllOutputs
    /\ readings = {Reading(name, Output("Counter", 0), 0)}

\* C9: latch() sets both Points to the unset sentinel, clears the histogram
\* when latched is true and leaves it alone when latched is false, and leaves
\* counter, has_data, last_write and the outputs unchanged.
C9_LatchResetsWindowOnly ==
    [][lastOp' = "latch" =>
          /\ max' = Point(0, 0)
          /\ min' = Point(0, 0)
          /\ latched => histogram' = [histogram EXCEPT !.data = EmptyBag]
          /\ ~latched => histogram' = histogram
          /\ UNCHANGED <<counter, has_data, last_write, outputs>>]_vars

\* latch() returned on a Counter-source channel that holds a counter, a
\* baseline and a last-write time, and whose histogram it emptied
C9_Witness ==
    /\ lastOp = "latch"
    /\ latched
    /\ Len(window) = 2
    /\ mark = 2
    /\ window[2].kind = "Counter"
    /\ histogram.some
    /\ histogram.data = EmptyBag
    /\ counter # 0
    /\ has_data
    /\ last_write # 0
    /\ outputs # {}
    /\ max = Point(0, 0)
    /\ min = Point(0, 0)

\* readings() returned after exactly one TimeInterval(start, stop), stop >=
\* start, was accepted since construction or the last latch() or zero(), with
\* MaxPointTime registered
SingleIntervalRead ==
    /\ lastOp = "readings"
    /\ MaxPointTime \in outputs
    /\ Len(SinceLatch) = 1
    /\ SinceLatch[1].kind = "TimeInterval"
    /\ U64Ge(SinceLatch[1].stop, SinceLatch[1].start)

\* C10 as stated: for every start and stop with stop >= start, readings()
\* then holds a MaxPointTime Reading whose value is start.
C10_MaxPointTimeIsStart ==
    SingleIntervalRead =>
        Reading(name, MaxPointTime, SinceLatch[1].start) \in ret

\* C10, amended: the same for every start > 0.
C10_MaxPointTimeIsPositiveStart ==
    (SingleIntervalRead /\ U64Gt(SinceLatch[1].start, 0)) =>
        Reading(name, MaxPointTime, SinceLatch[1].start) \in ret

\* readings() reported the start of an interval of nonzero duration
C10_Witness ==
    /\ SingleIntervalRead
    /\ SinceLatch[1].start = 29
    /\ SinceLatch[1].stop = 87
    /\ max = Point(58, 29)
    /\ Reading(name, MaxPointTime, 29) \in ret

\* readings() or hash_map() returned last
Snapshot == lastOp \in {"readings", "hash_map"}

\* C11: every MaxPointTime or MinPointTime entry that readings() or hash_map()
\* returns has a value greater than 0, and no entry is returned for a Point
\* that is unset (whose time is 0).
C11_NoPlaceholderForUnsetExtremum ==
    Snapshot =>
        /\ \A e \in ret :
               e.output \in {MaxPointTime, MinPointTime} => U64Gt(e.value, 0)
        /\ ~U64Gt(max.time, 0) => \A e \in ret : e.output # MaxPointTime
        /\ ~U64Gt(min.time, 0) => \A e \in ret : e.output # MinPointTime

\* the largest and the smallest value of a nonempty sequence of Gauge
\* measurements, in the order of u64
LargestValue(w) ==
    CHOOSE v \in {w[i].value : i \in 1..Len(w)} :
        \A i \in 1..Len(w) : U64Ge(v, w[i].value)

SmallestValue(w) ==
    CHOOSE v \in {w[i].value : i \in 1..Len(w)} :
        \A i \in 1..Len(w) : U64Ge(w[i].value, v)

\* the max and min Points a sequence of Gauge measurements leaves, by the
\* rule of C16: the first observation sets both, afterwards only a strictly
\* greater (smaller) value replaces max (min)
RECURSIVE FirstWinsMax(_)
FirstWinsMax(w) ==
    IF Len(w) = 1 THEN Point(w[1].value, w[1].time)
    ELSE LET p == FirstWinsMax(SubSeq(w, 1, Len(w) - 1))
         IN  IF U64Gt(Last(w).value, p.value)
             THEN Point(Last(w).value, Last(w).time) ELSE p

RECURSIVE FirstWinsMin(_)
FirstWinsMin(w) ==
    IF Len(w) = 1 THEN Point(w[1].value, w[1].time)
    ELSE LET p == FirstWinsMin(SubSeq(w, 1, Len(w) - 1))
         IN  IF U64Lt(Last(w).value, p.value)
             THEN Point(Last(w).value, Last(w).time) ELSE p

\* a Gauge measurement was accepted last, after the last latch() or zero()
GaugeRecorded ==
    /\ source = "Gauge"
    /\ lastOp = "record"
    /\ Len(SinceLatch) > 0

PositiveTimes(w) ==
    \A i \in 1..Len(w) :
        U64Gt(IF w[i].kind = "TimeInterval" THEN w[i].start ELSE w[i].time, 0)

RECURSIVE LastWriteOf(_)
LastWriteOf(w) ==
    IF w = <<>> THEN 0
    ELSE IF Last(w).kind = "TimeInterval" THEN LastWriteOf(SubSeq(w, 1, Len(w) - 1))
    ELSE Last(w).time

\* C17: last_write is the time of the most recent accepted Counter,
\* Increment, Distribution or Gauge measurement since construction or the
\* last zero(), 0 if there was none; a Counter measurement advances it on the
\* baseline and on the rate branch, a TimeInterval measurement and latch()
\* leave it unchanged.
C17_LastWriteIsLatestTime ==
    last_write = LastWriteOf(window)

\* a baseline at time 29 and a Counter measurement at the earlier time 0 on
\* the rate branch, followed by a latch()
C17_Witness ==
    /\ lastOp = "latch"
    /\ Len(window) = 2
    /\ window[1].kind = "Counter"
    /\ window[2].kind = "Counter"
    /\ window[1].time = 29
    /\ window[2].time = 0
    /\ has_data
    /\ last_write = 0

\* C18: while every measurement accepted since construction or the last
\* zero() carried a time (a start, for a TimeInterval) above 0, the max and
\* min Points are both set or both unset, so that readings() and hash_map()
\* return what they would return with MinPointTime gated on min.time() > 0.
C18_PointsSetTogether ==
    PositiveTimes(window) =>
        /\ U64Gt(max.time, 0) <=> U64Gt(min.time, 0)
        /\ Snapshot => (ret = {e \in ret : e.output = MinPointTime => U64Gt(min.time, 0)}
                        /\ (MinPointTime \in outputs /\ U64Gt(min.time, 0)
                               => \E e \in ret : e.output = MinPointTime))

\* readings() reported a min Point that differs from the max Point
C18_Witness ==
    /\ PositiveTimes(window)
    /\ Len(window) = 2
    /\ lastOp = "readings"
    /\ U64Gt(max.time, 0)
    /\ U64Gt(min.time, 0)
    /\ max.time # min.time
    /\ Reading(name, MinPointTime, min.time) \in ret

\* ------------------------------------------------------------------------
\* Properties of the concurrent calls
\* ------------------------------------------------------------------------

\* the call of thread th has returned (or unwound)
Returned(th) == threads[th].pc \in {"done", "panicked"}

\* the measurement adds to the counter and is legal on the channel's source
AddType(m) ==
    /\ m.kind \in {"Distribution", "Increment", "TimeInterval"}
    /\ LegalSource(m) = source

\* count for Distribution and Increment, 1 for TimeInterval
Delta(m) == IF m.kind = "TimeInterval" THEN 1 ELSE m.count

RECURSIVE SumOfDeltas(_)
SumOfDeltas(n) ==
    IF n = 0 THEN 0 ELSE wrapping_add(Delta(threads[n].m), SumOfDeltas(n - 1))

\* C7: once concurrent record() calls of accepted Distribution, Increment or
\* TimeInterval measurements have all completed, counter() is the initial
\* counter (0) plus the sum of their deltas.
C7_ConcurrentAddsAreNotLost ==
    (\A th \in Threads : Returned(th) /\ AddType(threads[th].m)) =>
        counter = SumOfDeltas(NumThreads)

\* all producers have returned from Increment calls of different counts
C7_Witness ==
    /\ \A th \in Threads : threads[th].pc = "done" /\ threads[th].m.kind = "Increment"
    /\ threads[1].m.count # threads[2].m.count
    /\ source = "Counter"
    /\ histogram.some
    /\ BagCardinality(histogram.data) = NumThreads
    /\ counter = SumOfDeltas(NumThreads)

\* what a Gauge or TimeInterval measurement is tracked by: the gauge value, or
\* the duration
Tracked(m) == IF m.kind = "TimeInterval" THEN m.stop - m.start ELSE m.value

\* every producer has returned from an accepted Gauge or TimeInterval
\* (stop >= start) measurement with a time above 0
ExtremaRecorded ==
    \A th \in Threads :
        /\ threads[th].pc = "done"
        /\ threads[th].m.kind \in {"Gauge", "TimeInterval"}
        /\ LegalSource(threads[th].m) = source
        /\ U64Gt(TrackTime(threads[th].m), 0)
        /\ threads[th].m.kind = "TimeInterval" => U64Ge(threads[th].m.stop, threads[th].m.start)

\* C20: once concurrent accepted Gauge (or TimeInterval) records with times
\* above 0 have all completed, the max Point's value is the largest value
\* (duration) recorded and the min Point's value the smallest, for every
\* interleaving.
C20_ConcurrentExtremaNotLost ==
    ExtremaRecorded =>
        /\ \A th \in Threads : U64Ge(max.value, Tracked(threads[th].m))
        /\ \A th \in Threads : U64Ge(Tracked(threads[th].m), min.value)

\* every producer has returned from a Counter measurement
CountersRecorded ==
    \A th \in Threads : threads[th].pc = "done" /\ threads[th].m.kind = "Counter"

\* every producer took the baseline branch
AllBaselines == \A th \in Threads : \E i \in 1..Len(baselines) : baselines[i] = th

\* C15: when concurrent Counter measurements on a Counter-source channel
\* without data all read has_data == false, all take the baseline branch:
\* none increments the histogram or updates a Point, and the counter ends as
\* the value stored last.
C15_BaselineIsNotExactlyOnce ==
    (CountersRecorded /\ AllBaselines) =>
        /\ histogram.data = EmptyBag
        /\ max = Point(0, 0)
        /\ min = Point(0, 0)
        /\ has_data
        /\ counter = threads[Last(baselines)].m.value

\* two Counter measurements of different values both took the baseline branch
\* on a channel with a histogram
C15_Witness ==
    /\ CountersRecorded
    /\ AllBaselines
    /\ Len(baselines) = NumThreads
    /\ threads[1].m.value # threads[2].m.value
    /\ histogram.some
    /\ histogram.data = EmptyBag
    /\ counter = threads[Last(baselines)].m.value

\* C19: on a Counter-source channel that holds a baseline, once concurrent
\* Counter measurements have all completed, counter() is the value of one of
\* them.
C19_ConcurrentCounterIsOneValue ==
    (has_data /\ baselines = <<>> /\ CountersRecorded) =>
        \E th \in Threads : counter = threads[th].m.value

\* ------------------------------------------------------------------------
\* Properties of the locks
\* ------------------------------------------------------------------------

\* the call of thread th is a record()
RecordCall(th) ==
    threads[th].m.kind \in {"Counter", "Distribution", "Gauge", "Increment", "TimeInterval"}

\* C12 as stated: no thread holds the Mutex of the name and the Mutex of the
\* outputs at once, and a thread in record() holds neither.
C12_LocksNeverNested ==
    \A th \in Threads :
        /\ ~(name_lock = th /\ outputs_lock = th)
        /\ RecordCall(th) => (name_lock # th /\ outputs_lock # th)

\* C12, amended: only readings() holds both, and it takes the Mutex of the
\* name while it holds the Mutex of the outputs; no thread takes the Mutex of
\* the outputs while it holds the Mutex of the name, and a thread in record()
\* holds neither.
C12_LocksNestedInOneOrder ==
    [][\A th \in Threads :
          /\ (name_lock' = th /\ outputs_lock' = th) =>
                 threads'[th].m.kind = "readings"
          /\ (outputs_lock' = th /\ outputs_lock # th) => name_lock # th
          /\ RecordCall(th) => (name_lock' # th /\ outputs_lock' # th)]_vars

\* readings() holds both locks while a record() is between its first and its
\* last step
C12_Witness ==
    \E th \in Threads, other \in Threads :
        /\ threads[th].m.kind = "readings"
        /\ name_lock = th
        /\ outputs_lock = th
        /\ RecordCall(other)
        /\ threads[other].pc \notin {"start", "done"}

\* C13: under fair scheduling every call of a concurrent mix of record,
\* readings, hash_map, add_output, delete_output, name, latch and zero
\* returns: no state is a deadlock, and a record() call can always take its
\* next step, whoever holds the locks.
C13_EveryCallReturns ==
    /\ [](\A th \in Threads :
             (RecordCall(th) /\ ~Returned(th)) => ENABLED StepLocks(th))
    /\ <>(\A th \in Threads : Returned(th))

\* a record() ran from its counter.set to its return while readings() held
\* the Mutex of the outputs: the Reading of the counter that readings()
\* pushed is older than the counter
C13_Witness ==
    \E th \in Threads, other \in Threads :
        /\ RecordCall(th)
        /\ threads[th].pc = "done"
        /\ threads[other].m.kind = "readings"
        /\ outputs_lock = other
        /\ Reading(name, Output("Counter", 0), 0) \in threads[other].dv
        /\ counter = LockMeasurement.value

\* ------------------------------------------------------------------------
\* Properties of the AtomicI8
\* ------------------------------------------------------------------------

\* thread th returns from its call in this step
Returning(th) == threads[th].pc = "start" /\ threads'[th].pc = "done"

\* every thread has returned from a compare_exchange call with the current
\* value the cell was created with and a new value that differs from it
AllExchanged ==
    \A th \in Threads :
        /\ threads[th].pc = "done"
        /\ threads[th].m.kind = "compare_exchange"
        /\ threads[th].m.current = initial
        /\ threads[th].m.new # initial

\* C14: compare_and_swap(current, new) returns the previous value of the
\* cell, swapped or not, and stores new exactly when that value is current;
\* compare_exchange(current, new) returns Ok(previous) and stores new when
\* the cell holds current, and otherwise returns Err(actual) and leaves the
\* cell alone; of concurrent compare_exchange calls with the same current on
\* a cell holding current, and a new that differs from it, exactly one
\* succeeds.
C14_CompareAndSwapAndExchange ==
    [][/\ \A th \in Threads :
             (Returning(th) /\ threads[th].m.kind = "compare_and_swap") =>
                 /\ threads'[th].x.value = cell
                 /\ cell = threads[th].m.current => cell' = threads[th].m.new
                 /\ cell # threads[th].m.current => cell' = cell
       /\ \A th \in Threads :
             (Returning(th) /\ threads[th].m.kind = "compare_exchange") =>
                 /\ cell = threads[th].m.current =>
                        (threads'[th].x = Ok(cell) /\ cell' = threads[th].m.new)
                 /\ cell # threads[th].m.current =>
                        (threads'[th].x = Err(cell) /\ cell' = cell)
       /\ AllExchanged' =>
             Cardinality({th \in Threads : threads'[th].x.ok}) = 1]_vars

\* the compare_exchange calls of all threads raced for the cell, with
\* different new values, and the cell holds the new value of the winner
C14_Witness ==
    /\ AllExchanged
    /\ threads[1].m.new # threads[2].m.new
    /\ \E th \in Threads :
           /\ threads[th].x = Ok(initial)
           /\ cell = threads[th].m.new
           /\ \A other \in Threads \ {th} : threads[other].x = Err(cell)

====
